---- MODULE Spec2Model ----
(***************************************************************************)
(* Model of tc_rerun_build.py: the session-reusing TeamCity REST client    *)
(* (teamcity_rest_call_reuse_session), the build inspector                 *)
(* (get_build_details), the build trigger (trigger_build_with_changeID)    *)
(* and the retrigger orchestrator (trigger_build_with_same_revision).      *)
(*                                                                         *)
(* The program is sequential.  One step of the model is one network        *)
(* request together with the code that runs until the next request is      *)
(* issued or the function returns, or one caller-side continuation.        *)
(* The server is the environment: every request is answered with an        *)
(* arbitrary status, body and cookie, or fails with a transport            *)
(* exception.                                                              *)
(*                                                                         *)
(* Python values are written as strings:                                   *)
(*   "False"  the boolean False        "None"   None                       *)
(*   "Empty"  the empty string ""      other strings: decoded bodies       *)
(***************************************************************************)
EXTENDS Integers, Sequences, FiniteSets, TLC

\* ------------------------------------------------------------------ bounds
\* largest retry_attempt passed to a direct call of the client
MaxRetry == 3
\* largest total_attempts passed to the orchestrator
MaxTotalAttempts == 3
\* the count of fallbacks of one client call is kept up to this value
MaxFallbackCount == 2

\* --------------------------------------------------------- program constants
\* default of the parameter retry_attempt
DefaultRetryAttempt == 10
\* max_retry of trigger_build_with_changeID
max_retry == 2

\* ------------------------------------------------------------- value domains
\* HTTP statuses the server may answer with (404 stands for every status that
\* is neither 200, 401, 403 nor one of the 5xx the code names)
Statuses == {200, 401, 403, 404, 500, 502, 503}

\* decoded bodies of a 'json' request (initiate_rest_call, json.loads):
\*   "None" undecodable, "EmptyObj" {}, "NonDict" a truthy value that is no
\*   mapping (list, number, string), "Snap*" a build snapshot:
\*     "SnapRunning", "SnapFinished"  state, buildTypeId, branchName
\*                            "release/1.0", changes with ids "10", "2", "30"
\*     "SnapFinishedDefault"  finished, branchName "<default>", changes with
\*                            ids "9", "10"
\*     "SnapFinishedBare"     finished, no branchName and no lastChanges
\*     "SnapNoState"          a mapping with none of these fields
JsonBodies == {"None", "EmptyObj", "NonDict", "SnapRunning", "SnapFinished",
               "SnapFinishedDefault", "SnapFinishedBare", "SnapNoState"}

\* decoded bodies of an 'xml' request (ET.XML + _etree_to_dict):
\*   "None" undecodable, "NoBuild" a root element other than build,
\*   "BuildScalar" <build/> or <build>text</build> (value None or a string),
\*   "BuildNoHref" build mapping without href and webUrl, "BuildHref" href
\*   only, "BuildWeb" webUrl only, "BuildHrefWeb" both
XmlBodies == {"None", "NoBuild", "BuildScalar", "BuildNoHref", "BuildHref", "BuildWeb", "BuildHrefWeb"}

\* cookies a response may set (r.cookies['TCSESSIONID']); "None": no cookie
IssuedCookies == {"None", "T1"}

\* Python truthiness of a data value
Truthy(d) == d \notin {"False", "None", "Empty", "EmptyObj"}

\* property mappings passed as build_props, as the sequence of their entries
\* in the mapping's order
PropertyMaps == {<<>>, <<<<"a", "1">>, <<"b", "2">>>>, <<<<"b", "2">>, <<"a", "1">>>>}

\* values passed as comment
Comments == {"None", "rerun"}

\* Python truthiness of a session token
TokenGiven(t) == t \notin {"False", "None"}

VARIABLES
  op,               \* entry point: "client" (direct client call) or "retrigger"
  pc,               \* position of the program
  caller,           \* who called the client: "top", "inspect", "trigger"
  \* ---- teamcity_rest_call_reuse_session (innermost frame)
  retry_attempt, tcSessionId, rest_data, status_code, depth, ret,
  \* ---- trigger_build_with_same_revision
  orig_build, build_type_id, only_if_finished, total_attempts,
  current_attempt, state, branch, change_id,
  \* ---- trigger_build_with_changeID
  current, return_value, properties, comment, build_id_xml,
  \* ---- the entry point: the tcSessionId argument of a direct client call,
  \*      the outcome
  argToken, outcome, result,
  \* ---- history of the current client call (reset when a call starts):
  \*      the budget it was given, its attempts and sleeps so far, the
  \*      requests of the current attempt, whether a request raised, the body
  \*      of its 200 response, the cookie the last request sent, the cookie
  \*      the last request without a cookie was answered with, the URL the
  \*      last request went to
  callBudget, callAttempts, callSleeps, attemptRequests, raised, body200,
  lastSent, lastIssued, lastUrl,
  \* ---- history kept for direct calls only: the fallbacks of the call (up
  \*      to MaxFallbackCount), the single status of all its responses
  callFallbacks, uniform,
  \* ---- history of the operation
  inspections, runningPolls, pollSleeps, submissions, lastInspect,
  firstResp, lastResp,
  \* ---- the decoded body the last inspection handed on, kept with branch
  \*      and change_id
  lastSnapshot

clientVars == <<retry_attempt, tcSessionId, rest_data, status_code, depth, ret>>
orchVars   == <<orig_build, build_type_id, only_if_finished, total_attempts,
                current_attempt, state>>
trigVars   == <<current, return_value>>
\* what the payload is built from, and the payload
snapVars    == <<branch, change_id, lastSnapshot>>
payloadVars == <<properties, comment, build_id_xml>>
callHist   == <<callBudget, callAttempts, callSleeps, callFallbacks,
                attemptRequests, raised, body200, lastSent, lastIssued, lastUrl,
                uniform>>
opHist     == <<inspections, runningPolls, pollSleeps, submissions, lastInspect,
                firstResp, lastResp>>
vars == <<op, pc, caller, clientVars, orchVars, trigVars, argToken, outcome, result,
          callHist, opHist, snapVars, payloadVars>>

\* ------------------------------------------------ make_rest_call, lines 38-44
\* the session id a request returns: the cookie that was sent when one was
\* sent, otherwise the cookie of the response (None when it sets none)
SessionIdAfter(sent, issued) == IF TokenGiven(sent) THEN sent ELSE issued

\* ------------------------------- teamcity_rest_call_reuse_session, the policy
\* mutant: only 401 is taken for a rejected token
IsAuthRejected_only401(s) == s = 401

\* line 257: the token request was rejected, fall back to user and password
IsAuthRejected(s) == s \in {401, 403}

\* line 279: statuses that are retried
IsTransient(s) == s \in {500, 502, 503, 401}

\* mutant: the budget test is off by one
BudgetExhausted_offByOne(r) == r < 0

\* line 287: the budget is used up (tested after the decrement of line 285)
BudgetExhausted(r) == r <= 0

\* mutant: the frame drops the inner call's data and returns its own local
FrameReturn_keepsLocal(inner) == <<"Empty", inner[2]>>

\* lines 290 and 311: a frame that retried returns what the inner call returned
FrameReturn(inner) == <<inner[1], inner[2]>>

\* the value the outermost call returns when the frame at depth d returns r
RECURSIVE Unwind(_, _)
Unwind(d, r) == IF d = 0 THEN r ELSE Unwind(d - 1, FrameReturn(r))

\* mutant: a permanent failure keeps the session id
PolicyReturn_keepsToken(s, d, t, r) ==
  IF s \in {500, 502, 503, 401}
    THEN IF r - 1 <= 0 THEN <<"False", t>> ELSE <<"retry", t>>
    ELSE IF s # 200 THEN <<"False", t>> ELSE <<d, t>>

\* lines 279-305 and 311 in a frame whose current response has status s and
\* decoded data d, with session id t: the value the frame returns, or
\* "retry" when it sleeps and calls itself
PolicyReturn(s, d, t, r) ==
  IF IsTransient(s)
    THEN IF BudgetExhausted(r - 1) THEN <<"False", t>> ELSE <<"retry", t>>
    ELSE IF s # 200 THEN <<"False", "False">> ELSE <<d, t>>

\* lines 307-311: a request raised; the frame returns its locals
ExceptReturn(d, t) == <<d, t>>

\* mutant: the token request goes to the URL with user and password
TokenRequestUrl_withPass == "rest_url"

\* line 246: the request with the session cookie goes to the URL without
\* credentials (line 231)
TokenRequestUrl == "rest_url_no_pass"

\* line 261: the fallback goes to the URL with user and password (line 230)
FallbackUrl == "rest_url"

\* line 271: so does the request of a call without a token
CredRequestUrl == "rest_url"

\* history of a direct call: the single status all its responses carried so
\* far (0: no response yet, -1: responses with different statuses)
NextUniform(u, s) == IF u = 0 THEN s ELSE IF u = s THEN u ELSE -1

\* decoded bodies a response with status s can carry, by the endpoint of the
\* current call.  A response that is not 200 carries an error document:
\* undecodable text, or a mapping without any of the fields of a build.  The
\* code reads the body of an error response only when a rejected token
\* request is followed by a fallback that raises (`kept`); where it is never
\* read it is not varied.
Bodies(s, kept) ==
  IF s = 200
    THEN IF caller = "trigger" THEN XmlBodies ELSE JsonBodies
    ELSE IF ~kept THEN {"None"}
    ELSE IF caller = "trigger" THEN {"None", "NoBuild"} ELSE {"None", "SnapNoState"}

\* entry of the outermost frame: lines 193-196 and 222-233
StartCall(who, tok, budget) ==
  /\ caller' = who
  /\ pc' = "c_begin"
  /\ retry_attempt' = budget
  /\ tcSessionId' = tok
  /\ rest_data' = "Empty"
  /\ status_code' = 0
  /\ depth' = 0
  /\ ret' = <<"-", "-">>
  /\ callBudget' = budget
  /\ callAttempts' = 1
  /\ callSleeps' = 0
  /\ callFallbacks' = 0
  /\ attemptRequests' = 0
  /\ raised' = FALSE
  /\ body200' = "-"
  /\ lastSent' = "None"
  /\ lastIssued' = "None"
  /\ lastUrl' = "-"
  /\ uniform' = 0

\* the frame's current response is (s, d), to a request that sent the cookie
\* `sent` and was answered with the cookie c: lines 279-288, 303-305, 311
Current(s, d, sent, c) ==
  LET t == SessionIdAfter(sent, c)
      r == PolicyReturn(s, d, t, retry_attempt) IN
  /\ body200' = IF s = 200 THEN d ELSE body200
  /\ status_code' = s
  /\ tcSessionId' = t
  /\ rest_data' = d
  /\ attemptRequests' = attemptRequests + 1
  /\ lastSent' = sent
  /\ lastIssued' = IF TokenGiven(sent) THEN "None" ELSE c
  /\ retry_attempt' = IF IsTransient(s) THEN retry_attempt - 1 ELSE retry_attempt
  /\ uniform' = IF caller = "top" THEN NextUniform(uniform, s) ELSE uniform
  /\ IF r[1] = "retry"
       THEN /\ pc' = "c_sleep"
            /\ UNCHANGED <<ret, depth>>
       ELSE /\ pc' = "c_done"
            /\ ret' = Unwind(depth, r)
            /\ depth' = 0
  /\ UNCHANGED <<callSleeps, callAttempts>>

\* lines 289-302 and 222-233: the sleep, then the entry of the recursive
\* call, whose status_code and rest_data are fresh locals
Client_SleepRetry ==
  /\ pc = "c_sleep"
  /\ pc' = "c_begin"
  /\ callSleeps' = callSleeps + 1
  /\ callAttempts' = callAttempts + 1
  /\ depth' = depth + 1
  /\ rest_data' = "Empty"
  /\ status_code' = 0
  /\ attemptRequests' = 0
  /\ lastSent' = "None"
  /\ lastIssued' = "None"
  /\ lastUrl' = "-"
  /\ UNCHANGED <<op, caller, retry_attempt, tcSessionId, ret, orchVars, trigVars,
                 outcome, result, callBudget, callFallbacks, raised, body200,
                 uniform, argToken, opHist, snapVars, payloadVars>>

\* a request raised a transport exception: lines 307-311
Raise ==
  /\ pc' = "c_done"
  /\ ret' = Unwind(depth, ExceptReturn(rest_data, tcSessionId))
  /\ raised' = TRUE
  /\ depth' = 0
  /\ attemptRequests' = attemptRequests + 1
  /\ lastIssued' = "None"
  /\ UNCHANGED <<retry_attempt, tcSessionId, rest_data, status_code,
                 callSleeps, callAttempts, body200, uniform>>

\* lines 243-257: the request with the session cookie to the token-only URL
Client_TokenRequest ==
  /\ pc = "c_begin"
  /\ TokenGiven(tcSessionId)
  /\ lastUrl' = TokenRequestUrl
  /\ UNCHANGED callFallbacks
  /\ \/ Raise /\ lastSent' = tcSessionId
     \/ \E s \in Statuses, c \in IssuedCookies : \E d \in Bodies(s, IsAuthRejected(s)) :
          /\ raised' = raised
          /\ IF IsAuthRejected(s)
               THEN /\ pc' = "c_fallback"
                    /\ lastSent' = tcSessionId
                    /\ lastIssued' = "None"
                    /\ rest_data' = d
                    /\ status_code' = s
                    /\ tcSessionId' = SessionIdAfter(tcSessionId, c)
                    /\ attemptRequests' = attemptRequests + 1
                    /\ uniform' = IF caller = "top" THEN NextUniform(uniform, s)
                                                    ELSE uniform
                    /\ UNCHANGED <<retry_attempt, depth, ret, callSleeps,
                                   callAttempts, body200>>
               ELSE Current(s, d, tcSessionId, c)
  /\ UNCHANGED <<op, caller, orchVars, trigVars, outcome, result,
                 callBudget, argToken, opHist, snapVars, payloadVars>>

\* lines 257-267: the fallback request with user and password, no cookie
Client_Fallback ==
  /\ pc = "c_fallback"
  /\ callFallbacks' = IF caller = "top" /\ callFallbacks < MaxFallbackCount
                         THEN callFallbacks + 1 ELSE callFallbacks
  /\ lastUrl' = FallbackUrl
  /\ \/ Raise /\ lastSent' = "None"
     \/ \E s \in Statuses, c \in IssuedCookies : \E d \in Bodies(s, FALSE) :
          /\ raised' = raised
          /\ Current(s, d, "None", c)
  /\ UNCHANGED <<op, caller, orchVars, trigVars, outcome, result,
                 callBudget, argToken, opHist, snapVars, payloadVars>>

\* lines 268-277: no token, the request with user and password
Client_CredRequest ==
  /\ pc = "c_begin"
  /\ ~TokenGiven(tcSessionId)
  /\ lastUrl' = CredRequestUrl
  /\ UNCHANGED callFallbacks
  /\ \/ Raise /\ lastSent' = "None"
     \/ \E s \in Statuses, c \in IssuedCookies : \E d \in Bodies(s, FALSE) :
          /\ raised' = raised
          /\ Current(s, d, "None", c)
  /\ UNCHANGED <<op, caller, orchVars, trigVars, outcome, result,
                 callBudget, argToken, opHist, snapVars, payloadVars>>

\* a direct call of the client returns to its caller
Top_ClientReturn ==
  /\ pc = "c_done"
  /\ caller = "top"
  /\ pc' = "done"
  /\ outcome' = "returned"
  /\ result' = ret
  /\ UNCHANGED <<op, caller, clientVars, orchVars, trigVars, argToken, callHist, opHist,
                 snapVars, payloadVars>>

\* ------------------------------------------------ get_build_details, 332-344
\* what the inspector hands on: the client's pair (the client catches every
\* exception itself, so the handler of lines 341-343 never runs)
GetBuildDetails(r) == <<r[1], r[2]>>

\* output.get('state'), line 475
StateOf(d) ==
  CASE d = "SnapRunning"  -> "running"
    [] d \in {"SnapFinished", "SnapFinishedDefault", "SnapFinishedBare"} -> "finished"
    [] OTHER              -> "None"

\* output.get('buildTypeId'), line 473
BuildTypeIdOf(d) ==
  IF d \in {"SnapRunning", "SnapFinished", "SnapFinishedDefault", "SnapFinishedBare"}
    THEN "CfgOrig" ELSE "None"

\* output.get('branchName'), line 474: None when the snapshot has no such field
BranchOf(d) ==
  CASE d \in {"SnapRunning", "SnapFinished"} -> "release/1.0"
    [] d = "SnapFinishedDefault"             -> "<default>"
    [] OTHER                                 -> "None"

\* line 476: the ids of output['lastChanges']['change'], [] without the field
ChangeIdsOf(d) ==
  CASE d \in {"SnapRunning", "SnapFinished"} -> <<"10", "2", "30">>
    [] d = "SnapFinishedDefault"             -> <<"9", "10">>
    [] OTHER                                 -> <<>>

\* the characters of a change id, by their code points' order
Chars(id) ==
  CASE id = "10" -> <<1, 0>>
    [] id = "2"  -> <<2>>
    [] id = "30" -> <<3, 0>>
    [] id = "9"  -> <<9>>

\* Python's < on sequences of characters
RECURSIVE SeqLess(_, _)
SeqLess(x, y) ==
  IF x = <<>> THEN y # <<>>
  ELSE IF y = <<>> THEN FALSE
  ELSE IF Head(x) # Head(y) THEN Head(x) < Head(y)
  ELSE SeqLess(Tail(x), Tail(y))

\* Python's < on two strings
StrLess(a, b) == SeqLess(Chars(a), Chars(b))

\* Python's max(ids), from position i on with the largest so far
RECURSIVE PyMaxFrom(_, _, _)
PyMaxFrom(ids, i, best) ==
  IF i > Len(ids) THEN best
  ELSE PyMaxFrom(ids, i + 1, IF StrLess(best, ids[i]) THEN ids[i] ELSE best)

\* mutant: the first change is taken
ChangeId_first(ids) == IF Len(ids) > 0 THEN ids[1] ELSE "None"

\* line 477: max(change_ids) if len(change_ids) > 0 else None
ChangeId(ids) == IF Len(ids) > 0 THEN PyMaxFrom(ids, 2, ids[1]) ELSE "None"

\* a value that has .get(): every decoded mapping
IsMapping(d) ==
  d \in {"EmptyObj", "SnapRunning", "SnapFinished", "SnapFinishedDefault",
         "SnapFinishedBare", "SnapNoState"}

\* ---------------------------------------- trigger_build_with_same_revision
\* mutant: one poll too many
PollAgain_offByOne(st, attempt, total) == st = "running" /\ attempt <= total

\* mutant: the loop does not look at the state
PollAgain_ignoresState(st, attempt, total) == attempt < total

\* line 482: poll again
PollAgain(st, attempt, total) == st = "running" /\ attempt < total

\* mutant: the loop sleeps before it tests whether to go on
PollSleep_always(again) == 1

\* lines 482-485: the sleeps of one iteration: one when the loop goes on,
\* none when it breaks
PollSleep(again) == IF again THEN 1 ELSE 0

\* line 486: the build never finished and the caller asked to wait for it
StillRunning(oif, st) == oif /\ st = "running"

\* the entry point ends
Finish(how, value) ==
  /\ pc' = "done"
  /\ outcome' = how
  /\ result' = value

\* lines 496-506: Build Trigger is called.  build_props and comment are
\* arguments of the orchestrator that nothing reads before this call; their
\* values are drawn here, where they are first read.
CallTrigger ==
  /\ pc' = "t_begin"
  /\ properties' \in PropertyMaps
  /\ comment' \in Comments

\* mutant: the configuration id is not tested
EntryPath_noTest(ob, bt) == IF ob THEN "orig" ELSE "config"

\* lines 458, 490 and 493: the path the orchestrator takes, by its inputs
EntryPath(ob, bt) ==
  IF ob THEN "orig" ELSE IF Truthy(bt) THEN "config" ELSE "none"

\* mutant: the budget is kept when the caller does not wait for the build
EffectiveAttempts_kept(oif, total) == total

\* lines 460-461: without 'only if finished' the budget is one inspection
EffectiveAttempts(oif, total) == IF ~oif THEN 1 ELSE total

\* lines 458-470 and 490-495: the entry of the orchestrator up to its first call
Orch_Start ==
  /\ pc = "o_start"
  /\ IF EntryPath(orig_build, build_type_id) = "orig"
       THEN /\ total_attempts' = EffectiveAttempts(only_if_finished, total_attempts)
            /\ current_attempt' = 0
            /\ StartCall("inspect", tcSessionId, DefaultRetryAttempt)
            /\ inspections' = inspections + 1
            /\ UNCHANGED <<outcome, result>>
            /\ UNCHANGED <<branch, change_id, properties, comment>>
       ELSE /\ IF EntryPath(orig_build, build_type_id) = "config"
                 THEN \* lines 491-492, then the call of lines 496-506
                      /\ change_id' = "Empty"
                      /\ branch' = "Empty"
                      /\ CallTrigger
                      /\ UNCHANGED <<outcome, result>>
                 ELSE /\ Finish("returned", <<"False", tcSessionId>>)
                      /\ UNCHANGED <<branch, change_id, properties, comment>>
            /\ UNCHANGED <<caller, clientVars, callHist, total_attempts,
                           current_attempt, inspections>>
  /\ UNCHANGED <<op, argToken, orig_build, build_type_id, only_if_finished, state,
                 trigVars, runningPolls, pollSleeps, submissions, lastInspect,
                 firstResp, lastResp, lastSnapshot, build_id_xml>>

\* lines 464-489: the inspector returned; the rest of the loop body, the
\* sleep and the next inspection, or the end of the loop
Orch_AfterInspect ==
  /\ pc = "c_done"
  /\ caller = "inspect"
  /\ LET got    == GetBuildDetails(ret)
         output == got[1]
         tok    == got[2]
         st     == StateOf(output)
     IN
     IF ~Truthy(output)
       THEN \* lines 478-480
            /\ Finish("returned", <<"False", tok>>)
            /\ tcSessionId' = tok
            /\ lastInspect' = "failed"
            /\ UNCHANGED <<caller, retry_attempt, rest_data, status_code, depth,
                           ret, callHist, build_type_id, current_attempt, state,
                           inspections, runningPolls, pollSleeps, snapVars,
                           properties, comment>>
       ELSE IF ~IsMapping(output)
         THEN \* line 473: AttributeError, the value has no get
              /\ Finish("raised", <<"AttributeError", "-">>)
              /\ tcSessionId' = tok
              /\ lastInspect' = "failed"
              /\ UNCHANGED <<caller, retry_attempt, rest_data, status_code, depth,
                             ret, callHist, build_type_id, current_attempt, state,
                             inspections, runningPolls, pollSleeps, snapVars,
                             properties, comment>>
         ELSE /\ build_type_id' = IF ~Truthy(build_type_id)
                                    THEN BuildTypeIdOf(output) ELSE build_type_id
              /\ branch' = BranchOf(output)
              /\ state' = st
              /\ change_id' = ChangeId(ChangeIdsOf(output))
              /\ lastSnapshot' = output
              /\ lastInspect' = st
              /\ current_attempt' = current_attempt + 1
              /\ runningPolls' = IF st = "running" THEN runningPolls + 1 ELSE runningPolls
              /\ IF PollAgain(st, current_attempt + 1, total_attempts)
                   THEN \* line 483, then line 464 again
                        /\ pollSleeps' = pollSleeps + PollSleep(TRUE)
                        /\ StartCall("inspect", tok, DefaultRetryAttempt)
                        /\ inspections' = inspections + 1
                        /\ UNCHANGED <<outcome, result, properties, comment>>
                   ELSE /\ IF StillRunning(only_if_finished, st)
                             THEN /\ Finish("returned", <<"False", tok>>)
                                  /\ UNCHANGED <<properties, comment>>
                             ELSE CallTrigger /\ UNCHANGED <<outcome, result>>
                        /\ pollSleeps' = pollSleeps + PollSleep(FALSE)
                        /\ tcSessionId' = tok
                        /\ UNCHANGED <<caller, retry_attempt, rest_data, status_code,
                                       depth, ret, callHist, inspections>>
  /\ UNCHANGED <<op, argToken, orig_build, only_if_finished, total_attempts,
                 trigVars, submissions, firstResp, lastResp, build_id_xml>>

\* ---------------------------------------------- trigger_build_with_changeID
\* line 414
HasBuild(d) == d \in {"BuildScalar", "BuildNoHref", "BuildHref", "BuildWeb", "BuildHrefWeb"}

\* line 415, for a build entry that is a mapping
HasHref(d) == d \in {"BuildHref", "BuildHrefWeb"}

\* trigger_info['build']['webUrl'] can be read, lines 507-508
HasWebUrl(d) == d \in {"BuildWeb", "BuildHrefWeb"}

\* mutant: the loop bound is off by one
MoreAttempts_single(cur) == cur < max_retry

\* mutant: the loop allows one submission more
MoreAttempts_oneMore(cur) == cur <= max_retry + 1

\* line 403
MoreAttempts(cur) == cur <= max_retry

\* '{}'.format(v): the text of a value ("" for the empty string, "None" for
\* None, a string as it is)
Format(v) == IF v = "Empty" THEN "" ELSE v

\* line 374: the marker of the default branch becomes the empty string
NormalizeBranch(b) == IF b = "<default>" THEN "Empty" ELSE b

\* mutant: only None stands for no base change
HasBaseChange_notNone(c) == c # "None"

\* line 383: if tc_internal_change_id
HasBaseChange(c) == Truthy(c)

\* mutant: the entries are written last to first
PropertyElements_reversed(props) ==
  [i \in 1..Len(props) |->
     <<"property", Format(props[Len(props) + 1 - i][1]),
                   Format(props[Len(props) + 1 - i][2])>>]

\* lines 389-391: one property element per entry of properties.items()
PropertyElements(props) ==
  [i \in 1..Len(props) |-> <<"property", Format(props[i][1]), Format(props[i][2])>>]

\* lines 374-394: the payload, as the sequence of its elements (an element
\* is its tag followed by the values of its attributes or its text)
BuildIdXml(config_id, premerge_changes, tc_internal_change_id, props, cmt, bump_to_top) ==
  <<<<"build", Format(NormalizeBranch(premerge_changes))>>,
    <<"buildType", Format(config_id)>>>>
  \o (IF bump_to_top THEN <<<<"triggeringOptions", "true">>>> ELSE <<>>)
  \o (IF Truthy(cmt) THEN <<<<"comment", Format(cmt)>>>> ELSE <<>>)
  \o (IF HasBaseChange(tc_internal_change_id)
        THEN <<<<"lastChanges">>, <<"change", Format(tc_internal_change_id), "false">>,
               <<"/lastChanges">>>>
        ELSE <<>>)
  \o <<<<"properties">>>>
  \o PropertyElements(props)
  \o <<<<"/properties">>, <<"/build">>>>

\* lines 374-402: the entry of Build Trigger up to its loop: the payload is
\* built from the arguments of lines 496-506 (bump_to_top is not passed and
\* has its default)
Trig_Begin ==
  /\ pc = "t_begin"
  /\ pc' = "t_loop"
  /\ build_id_xml' = BuildIdXml(build_type_id, branch, change_id, properties,
                                comment, FALSE)
  /\ current' = 1
  /\ return_value' = "Empty"
  /\ UNCHANGED <<op, caller, clientVars, orchVars, argToken, outcome, result,
                 callHist, opHist, snapVars, properties, comment>>

\* lines 403-411: the first submission.  The payload is not changed after
\* line 394 and every submission posts it; the locals of the polling loop
\* are not read after the call (lines 507-508 read trigger_info only).  The
\* model drops the payload, what it was built from and the loop's counters
\* here.
Trig_Submit ==
  /\ pc = "t_loop"
  /\ IF MoreAttempts(current)
       THEN /\ StartCall("trigger", tcSessionId, DefaultRetryAttempt)
            /\ submissions' = submissions + 1
       ELSE /\ pc' = "o_finish"
            /\ UNCHANGED <<caller, clientVars, callHist, submissions>>
  /\ total_attempts' = 0
  /\ current_attempt' = 0
  /\ state' = "-"
  /\ branch' = "-"
  /\ change_id' = "-"
  /\ lastSnapshot' = "-"
  /\ properties' = <<>>
  /\ comment' = "-"
  /\ build_id_xml' = <<>>
  /\ inspections' = 0
  /\ runningPolls' = 0
  /\ pollSleeps' = 0
  /\ UNCHANGED <<op, argToken, orig_build, build_type_id, only_if_finished,
                 trigVars, outcome, result, lastInspect, firstResp, lastResp>>

\* lines 412-430: the submission returned; validation, then the next
\* submission or the return to the orchestrator
Trig_AfterSubmit ==
  /\ pc = "c_done"
  /\ caller = "trigger"
  /\ LET triggered_build == ret[1]
         tok == ret[2]
         rv  == IF Truthy(triggered_build) THEN triggered_build ELSE return_value
     IN
     /\ lastResp' = triggered_build
     /\ firstResp' = IF submissions = 1 THEN triggered_build ELSE firstResp
     /\ IF Truthy(triggered_build) /\ triggered_build = "BuildScalar"
          THEN \* line 415: AttributeError, the build entry has no keys
               /\ Finish("raised", <<"AttributeError", "-">>)
               /\ return_value' = rv
               /\ tcSessionId' = tok
               /\ UNCHANGED <<caller, retry_attempt, rest_data, status_code,
                              depth, ret, callHist, current, submissions>>
          ELSE IF Truthy(triggered_build) /\ HasBuild(triggered_build)
                    /\ HasHref(triggered_build)
            THEN \* line 416: break, line 430
                 /\ pc' = "o_finish"
                 /\ return_value' = rv
                 /\ tcSessionId' = tok
                 /\ UNCHANGED <<caller, retry_attempt, rest_data, status_code,
                                depth, ret, callHist, current, submissions,
                                outcome, result>>
            ELSE \* line 429, then line 403
                 /\ current' = current + 1
                 /\ return_value' = rv
                 /\ IF MoreAttempts(current + 1)
                      THEN /\ StartCall("trigger", tok, DefaultRetryAttempt)
                           /\ submissions' = submissions + 1
                      ELSE /\ pc' = "o_finish"
                           /\ tcSessionId' = tok
                           /\ UNCHANGED <<caller, retry_attempt, rest_data,
                                          status_code, depth, ret, callHist,
                                          submissions>>
                 /\ UNCHANGED <<outcome, result>>
  /\ UNCHANGED <<op, argToken, orchVars, inspections, runningPolls, pollSleeps,
                 lastInspect, snapVars, payloadVars>>

\* lines 507-508: the orchestrator reads the URL of the triggered build
Orch_Finish ==
  /\ pc = "o_finish"
  /\ IF Truthy(return_value) /\ HasWebUrl(return_value)
       THEN Finish("returned", <<"webUrl", "-">>)
       ELSE \* TypeError on "", KeyError on a mapping without the key
            Finish("raised", <<IF Truthy(return_value) THEN "KeyError" ELSE "TypeError", "-">>)
  /\ UNCHANGED <<op, caller, clientVars, orchVars, trigVars, argToken, callHist, opHist,
                 snapVars, payloadVars>>

\* ------------------------------------------------------------------- Init
\* a direct call teamcity_rest_call_reuse_session(..., tcSessionId, retry_attempt)
InitClient ==
  /\ op = "client"
  /\ pc = "c_begin"
  /\ caller = "top"
  /\ retry_attempt \in 0..MaxRetry
  /\ tcSessionId \in {"None", "T0"}
  /\ orig_build = FALSE
  /\ build_type_id = "None"
  /\ only_if_finished = TRUE
  /\ total_attempts = 0

\* a call trigger_build_with_same_revision(orig_build, tcSessionId,
\* build_type_id, only_if_finished, total_attempts)
InitRetrigger ==
  /\ op = "retrigger"
  /\ pc = "o_start"
  /\ caller = "top"
  /\ retry_attempt = DefaultRetryAttempt
  /\ tcSessionId \in {"None", "T0"}
  /\ orig_build \in BOOLEAN
  /\ build_type_id \in {"None", "Cfg1"}
  /\ IF orig_build
       THEN only_if_finished \in BOOLEAN /\ total_attempts \in 0..MaxTotalAttempts
       ELSE only_if_finished = TRUE /\ total_attempts = 0

Init ==
  /\ InitClient \/ InitRetrigger
  /\ argToken = IF op = "client" THEN tcSessionId ELSE "-"
  /\ uniform = 0
  /\ rest_data = "Empty"
  /\ status_code = 0
  /\ depth = 0
  /\ ret = <<"-", "-">>
  /\ current_attempt = 0
  /\ state = "-"
  /\ current = 0
  /\ return_value = "Empty"
  /\ outcome = "running"
  /\ result = <<"-", "-">>
  /\ callBudget = retry_attempt
  /\ callAttempts = 1
  /\ callSleeps = 0
  /\ callFallbacks = 0
  /\ attemptRequests = 0
  /\ raised = FALSE
  /\ body200 = "-"
  /\ lastSent = "None"
  /\ lastIssued = "None"
  /\ lastUrl = "-"
  /\ inspections = 0
  /\ runningPolls = 0
  /\ pollSleeps = 0
  /\ submissions = 0
  /\ lastInspect = "-"
  /\ firstResp = "-"
  /\ lastResp = "-"
  /\ branch = "-"
  /\ change_id = "-"
  /\ lastSnapshot = "-"
  /\ properties = <<>>
  /\ comment = "-"
  /\ build_id_xml = <<>>

Next ==
  \/ Client_TokenRequest
  \/ Client_Fallback
  \/ Client_CredRequest
  \/ Client_SleepRetry
  \/ Top_ClientReturn
  \/ Orch_Start
  \/ Orch_AfterInspect
  \/ Trig_Begin
  \/ Trig_Submit
  \/ Trig_AfterSubmit
  \/ Orch_Finish

Spec == Init /\ [][Next]_vars

\* the program is one sequential thread and every request is a blocking call
\* with a timeout (ConnectionTimeOut), which returns or raises: a step that
\* can be taken is taken
FairSpec == Spec /\ WF_vars(Next)

\* ============================================================== properties
Max(a, b) == IF a >= b THEN a ELSE b

\* the statuses the client retries, as the claims list them
RetriedStatuses == {500, 502, 503, 401}

\* values that test false in Python
FalseValues == {"False", "Empty", "None", "EmptyObj"}

\* trigger results with a build entry that has an href field
WithHref == {"BuildHref", "BuildHrefWeb"}

\* the client is between the entry of a call and its return
InClient == pc \in {"c_begin", "c_fallback", "c_sleep"}

\* a direct call with a session token has returned, every request of it was
\* answered, and all its responses carried one and the same retried status
UniformTransientCall ==
  /\ op = "client"
  /\ pc = "c_done"
  /\ TokenGiven(argToken)
  /\ ~raised
  /\ uniform \in RetriedStatuses

\* the session id the last attempt ended with, told from its last request
LastAttemptToken == IF TokenGiven(lastSent) THEN lastSent ELSE lastIssued

\* C1 as stated (read in its favour: "retries retry_attempt times" counts the
\* attempts): a call with a session token whose responses all carry one
\* status of {500, 502, 503, 401} makes exactly retry_attempt attempts and
\* returns (False, current token).
C1_Original ==
  UniformTransientCall =>
    /\ callAttempts = callBudget
    /\ ret = <<"False", LastAttemptToken>>

\* C1 amended: such a call makes exactly max(retry_attempt, 1) attempts, with
\* one sleep before each attempt but the first, and returns (False, current
\* token); the current token is the supplied one for 500, 502 and 503 and
\* the cookie of the last fallback or credential response for 401.
C1_Amended ==
  UniformTransientCall =>
    /\ callAttempts = Max(callBudget, 1)
    /\ callSleeps = callAttempts - 1
    /\ ret = <<"False", LastAttemptToken>>
    /\ (uniform # 401 => ret[2] = argToken)
    /\ (uniform = 401 => ret[2] = lastIssued)

C1_Witness ==
  /\ UniformTransientCall
  /\ uniform = 401
  /\ callBudget = MaxRetry
  /\ callAttempts = MaxRetry
  /\ ret = <<"False", "T1">>

\* C2: once a response of a call has status 200 the client is done: the call
\* returns that response's decoded data and the session id of that attempt,
\* and no request and no sleep follows the response.
C2_Returns200 ==
  body200 # "-" =>
    /\ ~InClient
    /\ pc = "c_done" =>
         /\ status_code = 200
         /\ ret = <<body200, LastAttemptToken>>
         /\ callSleeps = callAttempts - 1
         /\ attemptRequests \in {1, 2}

C2_Witness ==
  /\ pc = "c_done"
  /\ body200 = "SnapFinished"
  /\ callAttempts >= 2
  /\ attemptRequests = 2
  /\ ret = <<"SnapFinished", "T1">>

\* a token request answered 401 or 403 is followed by the fallback: it is
\* never the response the status policy is applied to
C3_FallbackFollows ==
  /\ pc = "c_fallback" =>
       /\ attemptRequests = 1
       /\ status_code \in {401, 403}
       /\ TokenGiven(lastSent)
  /\ (pc \in {"c_sleep", "c_done"} /\ ~raised /\ TokenGiven(lastSent)) =>
       status_code \notin {401, 403}

\* an attempt makes at most two requests, and the second one is the fallback,
\* sent without a cookie
C3_OncePerAttempt ==
  /\ attemptRequests <= 2
  /\ (attemptRequests = 2 => lastSent = "None")

\* the status policy is applied to the status of the fallback's response
C3_PolicyOnFallback ==
  (pc \in {"c_sleep", "c_done"} /\ attemptRequests = 2 /\ ~raised) =>
    \/ pc = "c_done" /\ status_code = 200
    \/ pc = "c_sleep" /\ status_code \in RetriedStatuses /\ retry_attempt > 0
    \/ /\ pc = "c_done"
       /\ status_code \in RetriedStatuses
       /\ retry_attempt <= 0
       /\ ret = <<"False", lastIssued>>
    \/ /\ pc = "c_done"
       /\ status_code \notin (RetriedStatuses \cup {200})
       /\ ret = <<"False", "False">>

\* C3 as stated: a token request answered 401 or 403 triggers the fallback,
\* the fallback happens once per call and never again in that call, and the
\* status policy is applied to the fallback's status.
C3_Original ==
  /\ C3_FallbackFollows
  /\ C3_OncePerAttempt
  /\ C3_PolicyOnFallback
  /\ callFallbacks <= 1

\* C3 amended: a token request answered 401 or 403 triggers exactly one
\* fallback in that attempt; a later attempt of the same call whose token
\* request is rejected falls back again.  The status policy is applied to
\* the fallback's status.
C3_Amended ==
  /\ C3_FallbackFollows
  /\ C3_OncePerAttempt
  /\ C3_PolicyOnFallback

C3_Witness ==
  /\ pc = "c_done"
  /\ caller = "top"
  /\ callFallbacks = 2
  /\ attemptRequests = 2
  /\ status_code = 403
  /\ ret = <<"False", "False">>

\* C4: a current response whose status is none of 200, 500, 502, 503, 401
\* ends the call at once with (False, False), inside a retry too: the client
\* sleeps only after a retried status, and the outermost call returns the
\* pair.
C4_PermanentFailure ==
  /\ (pc = "c_done" /\ ~raised /\ status_code \notin (RetriedStatuses \cup {200})) =>
       /\ ret = <<"False", "False">>
       /\ callSleeps = callAttempts - 1
  /\ (pc = "c_sleep" => status_code \in RetriedStatuses)
  /\ (op = "client" /\ pc = "done" /\ ~raised
        /\ status_code \notin (RetriedStatuses \cup {200})) =>
       result = <<"False", "False">>

C4_Witness ==
  /\ op = "client"
  /\ pc = "done"
  /\ ~raised
  /\ callAttempts = MaxRetry
  /\ status_code = 404
  /\ result = <<"False", "False">>

\* C5 as stated (read in its favour: the failure value is any value that
\* tests false): when a request raises, the call returns a false data value
\* and a token that is False or the last known token.
C5_Claim ==
  (pc = "c_done" /\ raised) =>
    /\ ret[1] \in FalseValues
    /\ ret[2] \in {"False", tcSessionId}

\* the orchestrator may start Build Trigger only after an inspection that
\* reported a state other than running
C6_NoTriggerWhileRunning ==
  (op = "retrigger" /\ orig_build /\ only_if_finished
     /\ (pc \in {"t_begin", "t_loop", "o_finish"} \/ submissions > 0)) =>
    lastInspect \in {"finished", "None"}

\* the operation ended after an inspection that reported running, with
\* 'only if finished' set: count inspections were made, all of them reported
\* running, the operation returned the failure value and made no submission
C6_Abort(count) ==
  (op = "retrigger" /\ pc = "done" /\ orig_build /\ only_if_finished
     /\ lastInspect = "running") =>
    /\ inspections = count
    /\ runningPolls = inspections
    /\ outcome = "returned"
    /\ result[1] = "False"
    /\ submissions = 0

\* C6 as stated: no submission unless the last inspection reported a state
\* other than running, and a build that stays running is inspected exactly
\* total_attempts times before the operation aborts.
C6_Original == C6_NoTriggerWhileRunning /\ C6_Abort(total_attempts)

\* C6 amended: the same, with exactly max(total_attempts, 1) inspections.
C6_Amended == C6_NoTriggerWhileRunning /\ C6_Abort(Max(total_attempts, 1))

C6_Witness ==
  /\ op = "retrigger"
  /\ pc = "done"
  /\ orig_build
  /\ only_if_finished
  /\ lastInspect = "running"
  /\ total_attempts = MaxTotalAttempts
  /\ inspections = MaxTotalAttempts
  /\ result[1] = "False"

C9_Claim ==
  (pc = "o_finish" /\ firstResp \notin WithHref /\ lastResp \notin WithHref) =>
    /\ submissions = 2
    /\ return_value = "Empty"

\* C10 as stated, for Build Trigger giving up after its 2 attempts: the
\* retrigger operation returns the failure value, it does not raise and does
\* not return anything else.
C10_Claim ==
  (op = "retrigger" /\ pc = "done" /\ submissions = 2
     /\ lastResp \in {"False", "Empty", "None", "NoBuild", "BuildNoHref", "BuildWeb"}) =>
    /\ outcome = "returned"
    /\ result[1] = "False"

\* C11 as stated: whenever Build Trigger returns a result it validated (a
\* build entry with the href field of line 415), the orchestrator returns the
\* public URL of that build, on the original-build path and on the
\* configuration-only path.
C11_Claim ==
  (op = "retrigger" /\ pc = "done" /\ submissions >= 1 /\ lastResp \in WithHref) =>
    /\ outcome = "returned"
    /\ result = <<"webUrl", "-">>

\* C12: called with neither an original build nor a configuration id, the
\* orchestrator ends at once with the failure value and the token it was
\* given: no inspection, no submission, no request and no sleep.
C12_NoInputAborts ==
  (op = "retrigger" /\ ~orig_build /\ ~Truthy(build_type_id)) =>
    /\ pc \in {"o_start", "done"}
    /\ caller = "top"
    /\ inspections = 0 /\ submissions = 0
    /\ attemptRequests = 0 /\ status_code = 0 /\ ~raised
    /\ callSleeps = 0 /\ pollSleeps = 0
    /\ pc = "done" => (outcome = "returned" /\ result = <<"False", tcSessionId>>)

C12_Witness ==
  /\ op = "retrigger"
  /\ ~orig_build
  /\ build_type_id = "None"
  /\ pc = "done"
  /\ result = <<"False", "T0">>

\* an inspection has failed: its client call returned after a request that
\* raised, after a last response other than 200, or after a 200 response
\* whose body could not be decoded
InspectionFailed ==
  /\ caller = "inspect"
  /\ pc = "c_done"
  /\ (raised \/ status_code # 200 \/ body200 = "None")

\* C13 as stated (read in its favour: an empty snapshot is any value that
\* tests false, which line 471 takes to lines 478-480, the return of the
\* failure value before any submission): whenever an inspection fails,
\* get_build_details hands the orchestrator an empty snapshot.
C13_Claim ==
  InspectionFailed =>
    /\ GetBuildDetails(ret)[1] \in FalseValues
    /\ submissions = 0

\* a request: a step that adds to the requests of the current attempt
RequestStep == attemptRequests' = attemptRequests + 1

\* the last request sent no cookie to the URL with credentials, or the
\* session cookie to the URL without them
C14_CookieOrCredentials ==
  attemptRequests >= 1 =>
    \/ lastUrl = "rest_url" /\ ~TokenGiven(lastSent)
    \/ lastUrl = "rest_url_no_pass" /\ TokenGiven(lastSent)

\* a request to the URL with credentials is the first request of an attempt
\* that was given no token, or follows, in the same attempt, a token request
\* that was answered 401 or 403
C14_CredentialsOnlyWhen ==
  (RequestStep /\ lastUrl' = "rest_url") =>
    \/ pc = "c_begin" /\ attemptRequests = 0 /\ ~TokenGiven(tcSessionId)
    \/ /\ pc = "c_fallback"
       /\ attemptRequests = 1
       /\ lastUrl = "rest_url_no_pass"
       /\ TokenGiven(lastSent)
       /\ status_code \in {401, 403}

\* C14: the URL with embedded credentials is requested only in an attempt
\* that was given no token or whose token request was answered 401 or 403;
\* every request with the session cookie goes to the token-only URL; no
\* request carries both the cookie and the credentials.
C14_UrlAndCookie == [](C14_CookieOrCredentials) /\ [][C14_CredentialsOnlyWhen]_vars

C14_Witness ==
  /\ pc = "c_done"
  /\ callAttempts = 2
  /\ attemptRequests = 2
  /\ lastUrl = "rest_url"
  /\ lastSent = "None"
  /\ lastIssued = "T1"
  /\ status_code = 200

\* C15 as stated (read in its favour: a call that returns neither null nor
\* False after a request raised is not counted against it): a 200 response
\* with an undecodable body ends the call with null data and the token,
\* without a retry, and null data tells that response from every outcome
\* that is not a 200 response: the call returns null only for it.
C15_Claim ==
  pc = "c_done" =>
    /\ (status_code = 200 /\ body200 = "None") =>
         /\ ret = <<"None", LastAttemptToken>>
         /\ callSleeps = callAttempts - 1
    /\ ret[1] = "None" => (status_code = 200 /\ body200 = "None")

\* the element e of a payload belongs to a change list
IsChangeElement(e) == e[1] \in {"lastChanges", "change", "/lastChanges"}

\* the element e of a payload is a property element
IsPropertyElement(e) == e[1] = "property"

\* the payload is built and not yet submitted
PayloadBuilt == pc = "t_loop"

\* C16: with a configuration id only, the orchestrator makes no inspection
\* and calls Build Trigger with an empty branch and an empty base change;
\* the payload has the branch attribute "" and no change list.
C16_ConfigOnly ==
  (op = "retrigger" /\ ~orig_build /\ Truthy(build_type_id)) =>
    /\ caller # "inspect"
    /\ lastInspect = "-"
    /\ inspections = 0
    /\ pc # "o_start" => (pc \in {"t_begin", "t_loop"} \/ submissions >= 1)
    /\ pc \in {"t_begin", "t_loop"} => (branch = "Empty" /\ change_id = "Empty")
    /\ PayloadBuilt =>
         /\ build_id_xml[1] = <<"build", "">>
         /\ SelectSeq(build_id_xml, IsChangeElement) = <<>>

C16_Witness ==
  /\ op = "retrigger"
  /\ ~orig_build
  /\ build_type_id = "Cfg1"
  /\ PayloadBuilt
  /\ build_id_xml = <<<<"build", "">>, <<"buildType", "Cfg1">>, <<"properties">>,
                      <<"/properties">>, <<"/build">>>>

\* the orchestrator holds the branch and the base change of the snapshot of
\* its last inspection
HoldsSnapshot ==
  /\ op = "retrigger"
  /\ orig_build
  /\ pc \in {"t_begin", "t_loop"}

\* C17: on the original-build path the base change passed to Build Trigger
\* is the largest id, in the order of Python strings, among the changes of
\* the last inspected snapshot ("30" for "10", "2", "30"), and the payload
\* has one change list with that one change; a snapshot without changes
\* gives no base change and a payload without a change list.
C17_BaseChange ==
  HoldsSnapshot =>
    LET ids == ChangeIdsOf(lastSnapshot) IN
    /\ lastSnapshot # "-"
    /\ Len(ids) > 0 =>
         /\ \E i \in 1..Len(ids) : change_id = ids[i]
         /\ \A i \in 1..Len(ids) : ~StrLess(change_id, ids[i])
         /\ PayloadBuilt =>
              SelectSeq(build_id_xml, IsChangeElement) =
                <<<<"lastChanges">>, <<"change", change_id, "false">>, <<"/lastChanges">>>>
    /\ ids = <<"10", "2", "30">> => change_id = "30"
    /\ Len(ids) = 0 =>
         /\ change_id = "None"
         /\ PayloadBuilt => SelectSeq(build_id_xml, IsChangeElement) = <<>>

C17_Witness ==
  /\ HoldsSnapshot
  /\ PayloadBuilt
  /\ inspections = 2
  /\ lastSnapshot = "SnapFinished"
  /\ change_id = "30"
  /\ build_id_xml[3] = <<"lastChanges">>
  /\ build_id_xml[4] = <<"change", "30", "false">>

\* the branch the orchestrator resolved denotes the default branch: the
\* marker, the empty string, or the None of a build snapshot without a
\* branch name
DenotesDefaultBranch ==
  \/ branch = "<default>"
  \/ branch = "Empty"
  \/ /\ orig_build
     /\ StateOf(lastSnapshot) # "None"
     /\ BranchOf(lastSnapshot) = "None"
     /\ branch = "None"

\* C18 as stated: the payload of Build Trigger has the branch attribute ""
\* whenever the resolved branch denotes the default branch.
C18_Claim ==
  (op = "retrigger" /\ PayloadBuilt /\ DenotesDefaultBranch) =>
    build_id_xml[1] = <<"build", "">>

\* the element e of a payload is a build-type reference
IsBuildTypeElement(e) == e[1] = "buildType"

\* the payload built for a branch that is a string is a build element with
\* the branch attribute attr, holding one build-type reference to the
\* configuration id and, between the tags of the properties element, one
\* property element per entry of the mapping, with the entry's name and
\* value, in the mapping's order
C19_Payload(attr) ==
  (op = "retrigger" /\ PayloadBuilt /\ branch # "None") =>
    LET n  == Len(build_id_xml)
        pe == SelectSeq(build_id_xml, IsPropertyElement) IN
    /\ build_id_xml[1] = <<"build", attr>>
    /\ build_id_xml[n] = <<"/build">>
    /\ SelectSeq(build_id_xml, IsBuildTypeElement) = <<<<"buildType", build_type_id>>>>
    /\ Len(pe) = Len(properties)
    /\ \A i \in 1..Len(properties) :
         /\ pe[i] = <<"property", properties[i][1], properties[i][2]>>
         /\ build_id_xml[n - 2 - Len(properties) + i] = pe[i]
    /\ build_id_xml[n - 2 - Len(properties)] = <<"properties">>
    /\ build_id_xml[n - 1] = <<"/properties">>

\* C19 as stated: the branch attribute of the payload is the branch.
C19_Original == C19_Payload(Format(branch))

\* C19 amended: the branch attribute is the branch, or the empty string when
\* the branch is the marker '<default>'.
C19_Amended == C19_Payload(IF branch = "<default>" THEN "" ELSE Format(branch))

C19_Witness ==
  /\ PayloadBuilt
  /\ properties = <<<<"a", "1">>, <<"b", "2">>>>
  /\ branch = "release/1.0"
  /\ build_type_id = "Cfg1"
  /\ build_id_xml =
       <<<<"build", "release/1.0">>, <<"buildType", "Cfg1">>,
         <<"lastChanges">>, <<"change", "30", "false">>, <<"/lastChanges">>,
         <<"properties">>, <<"property", "a", "1">>, <<"property", "b", "2">>,
         <<"/properties">>, <<"/build">>>>

\* the sleeps made so far: the sleeps of a client call are one less than its
\* attempts (one before each attempt but the first, none after the last),
\* the sleeps of the polling loop one less than its inspections
C20_SleepCounts ==
  /\ callSleeps = callAttempts - 1
  /\ pollSleeps = IF inspections >= 1 THEN inspections - 1 ELSE 0

\* a step that sleeps is the client's retry after a current response with a
\* retried status and budget left, or the polling loop's next inspection
\* after one that reported running
C20_SleepStep ==
  (callSleeps' > callSleeps \/ pollSleeps' > pollSleeps) =>
    \/ /\ callSleeps' = callSleeps + 1
       /\ pollSleeps' = pollSleeps
       /\ pc = "c_sleep" /\ pc' = "c_begin"
       /\ ~raised
       /\ status_code \in RetriedStatuses
       /\ retry_attempt > 0
       /\ callAttempts' = callAttempts + 1
       /\ submissions' = submissions /\ inspections' = inspections
    \/ /\ pollSleeps' = pollSleeps + 1
       /\ callSleeps' = 0
       /\ caller = "inspect" /\ pc = "c_done"
       /\ caller' = "inspect" /\ pc' = "c_begin"
       /\ state' = "running"
       /\ inspections' = inspections + 1

\* C20: in a retrigger operation the program sleeps only before a retry of
\* the client after a retried status with budget left, and between two
\* inspections of the polling loop; not before the fallback, not after the
\* last attempt or the last inspection, not between two submissions.
C20_SleepsOnlyThere == [](C20_SleepCounts) /\ [][C20_SleepStep]_vars

C20_Witness ==
  /\ op = "retrigger"
  /\ caller = "inspect"
  /\ pc = "c_done"
  /\ inspections = 2
  /\ pollSleeps = 1
  /\ callAttempts = 2
  /\ callSleeps = 1
  /\ attemptRequests = 2

\* the token carried into a retry is the token the attempt before it ended
\* with: the token it sent, or the cookie its fallback or credential request
\* was answered with
C21_CarriedToken == pc = "c_sleep" => tcSessionId = LastAttemptToken

\* C21 as stated (read in its favour: for the token supplied to a direct
\* call, which the server never issues anew): the token carried into each
\* retry is the one that resulted from the attempt before it, and once the
\* supplied token was rejected with 401 or 403 it is not sent again in the
\* call and not returned to the caller.
C21_Claim ==
  /\ C21_CarriedToken
  /\ (op = "client" /\ argToken = "T0" /\ callFallbacks >= 1) =>
       /\ lastSent # "T0"
       /\ pc \in {"c_done", "done"} => ret[2] # "T0"

\* the attempts, requests, inspections and submissions made so far are
\* within their budgets
C22_Bounds ==
  /\ callAttempts <= Max(callBudget, 1)
  /\ attemptRequests <= 2
  /\ inspections <= Max(total_attempts, 1)
  /\ submissions <= max_retry
  /\ (caller \in {"inspect", "trigger"} => callBudget = DefaultRetryAttempt)

\* C22: whatever the server answers and whatever the budgets are, the
\* operation ends: a client call makes at most max(retry_attempt, 1)
\* attempts of at most 2 requests, the orchestrator at most
\* max(total_attempts, 1) inspections, Build Trigger at most 2 submissions.
C22_Terminates == [](C22_Bounds) /\ <>(pc = "done")

C22_Witness ==
  /\ op = "retrigger"
  /\ pc = "done"
  /\ orig_build
  /\ submissions = max_retry
  /\ callAttempts = DefaultRetryAttempt
  /\ attemptRequests = 2

\* C23: without 'only if finished' the orchestrator inspects the original
\* build exactly once, whatever total_attempts was passed, does not sleep
\* between polls, and calls Build Trigger after an inspection that handed on
\* a snapshot, one that reports running included.
C23_SingleInspection ==
  (op = "retrigger" /\ orig_build /\ ~only_if_finished) =>
    /\ inspections <= 1
    /\ pollSleeps = 0
    /\ (pc # "o_start" /\ submissions = 0 /\ pc # "o_finish") => inspections = 1
    /\ lastInspect \in {"running", "finished", "None"} =>
         (pc \in {"t_begin", "t_loop"} \/ submissions >= 1)
    /\ (pc = "done" /\ submissions = 0) => lastInspect = "failed"

C23_Witness ==
  /\ op = "retrigger"
  /\ orig_build
  /\ ~only_if_finished
  /\ lastInspect = "running"
  /\ lastSnapshot = "SnapRunning"
  /\ pc = "t_loop"
  /\ inspections = 1
  /\ pollSleeps = 0

====
